---- MODULE Spec2Model ----
(***************************************************************************)
(* Model of the `least` pager: the reader thread of Input::open, the       *)
(* terminal-input thread, the mpsc channel, the dispatcher loop of         *)
(* App::run, the key state machine KeyState::next and the overstrike       *)
(* decoder parse_styled_spans.                                             *)
(*                                                                         *)
(* Bytes and chars are numbers (their code points).  A String is a         *)
(* sequence of chars, a Vec<u8> a sequence of bytes.                       *)
(***************************************************************************)
EXTENDS Integers, Sequences, FiniteSets, TLC

VARIABLES
    \* ---- the input source and the reader thread (input.rs) ----
    src,                 \* the bytes the source will deliver, in order
    pos,                 \* how many of them the BufRead has handed out
    rpc,                 \* reader thread position
    rerr,                \* the Err(..) the reader closure returned
    lines_batch,         \* Vec<String> of completed lines not yet sent
    line_buf,            \* Vec<u8> of the current partial line
    rsent,               \* every tx.send the reader thread made, in order
    \* ---- the channel and the terminal thread (app.rs) ----
    chan,                \* mpsc::channel::<Event>, FIFO
    tpc,                 \* terminal thread position
    \* ---- App / OpenedInput (app.rs, input.rs) ----
    appPc,               \* position of App::run
    result,              \* what App::run returned
    mode,                \* App.mode
    lines,               \* OpenedInput.lines
    reached_eof,         \* OpenedInput.reached_eof
    current_total_lines, \* OpenedInput.current_total_lines
    current_line,        \* App.current_line
    key_state,           \* App.key_state
    term_size,           \* App.term_size
    \* ---- drivers of the pure functions ----
    query,               \* arguments of a direct call of OpenedInput::lines, if any
    answer,              \* the lines it returned
    typed,               \* keys given to KeyState::next so far
    acts,                \* the actions it returned, in order
    input,               \* argument of parse_styled_spans
    spans,               \* its result
    dpc                  \* decoder driver position

readerVars == <<src, pos, rpc, rerr, lines_batch, line_buf, rsent>>
appVars == <<appPc, result, mode, lines, reached_eof, current_total_lines,
             current_line, key_state, term_size>>
viewVars == <<query, answer>>
keyVars == <<typed, acts>>
decVars == <<input, spans, dpc>>
vars == <<src, pos, rpc, rerr, lines_batch, line_buf, rsent, chan, tpc,
          appPc, result, mode, lines, reached_eof, current_total_lines,
          current_line, key_state, term_size,
          query, answer, typed, acts, input, spans, dpc>>

(***************************************************************************)
(* Bounds                                                                  *)
(***************************************************************************)
MaxSrcLen == 3        \* longest source, in bytes
MaxChunk == 2         \* longest slice one fill_buf returns
MaxHeight == 2        \* tallest terminal
MaxGoto == 22         \* largest line number typed in the navigation model
MaxNavLines == 2      \* most lines of a source of the navigation model

(***************************************************************************)
(* Bytes                                                                   *)
(***************************************************************************)
LF == 10
BS == 8
TAB == 9
UNDERSCORE == 95
BadByte == 255            \* a byte that is not valid UTF-8 on its own
ReplacementChar == 65533  \* U+FFFD

\* a newline, a letter, a tab and an invalid byte
SrcBytes == {LF, 97, TAB, BadByte}
SeqsUpTo(S, n) == UNION {[1..k -> S] : k \in 0..n}
\* every source of the pipeline model; sources of newlines only for the
\* navigation model, where only the number of lines matters
Sources == SeqsUpTo(SrcBytes, MaxSrcLen)
NavSources == SeqsUpTo({LF}, MaxNavLines)
Heights == 0..MaxHeight
SizeOf(h) == [width |-> 80, height |-> h]

Min(a, b) == IF a <= b THEN a ELSE b
SaturatingSub(a, b) == IF a >= b THEN a - b ELSE 0
SaturatingAdd(a, b) == a + b

\* String::from_utf8_lossy(..).into_owned(): invalid bytes become U+FFFD
FromUtf8Lossy(bytes) ==
    [i \in 1..Len(bytes) |-> IF bytes[i] >= 128 THEN ReplacementChar ELSE bytes[i]]

\* memchr::memchr(b, s): index (0-based) of the first b in s, -1 for None
Memchr(b, s) ==
    IF \E i \in 1..Len(s) : s[i] = b
    THEN (CHOOSE i \in 1..Len(s) : s[i] = b /\ \A j \in 1..(i-1) : s[j] # b) - 1
    ELSE -1

\* the `while let Some(i) = memchr(..)` loop and the extend after it
RECURSIVE SplitLoop(_, _, _, _)
SplitLoop(buf, consumed, lb, batch) ==
    LET i == Memchr(LF, SubSeq(buf, consumed + 1, Len(buf))) IN
    IF i = -1
    THEN [line_buf |-> lb \o SubSeq(buf, consumed + 1, Len(buf)),
          lines_batch |-> batch]
    ELSE LET end == consumed + i + 1 IN
         SplitLoop(buf, end, <<>>,
                   Append(batch, FromUtf8Lossy(lb \o SubSeq(buf, consumed + 1, end))))

(***************************************************************************)
(* Events                                                                  *)
(***************************************************************************)
NewLinesEv(ls) == [type |-> "NewLines", lines |-> ls]
EOFEv == [type |-> "EOF"]
ErrEv(c) == [type |-> "Err", cause |-> c]
TermEv(e) == [type |-> "Term", ev |-> e]

\* Sender::send: the message is queued unless the receiver was dropped
Send(q, e) == IF appPc \in {"exited", "panicked"} THEN q ELSE Append(q, e)

(***************************************************************************)
(* The reader thread: the closure of Input::open                           *)
(***************************************************************************)
\* The ways the closure returns Err before or inside the loop (the `?`s)
OpenFailures == {"open", "is_dir", "poll_new", "register"}
LoopFailures == {"poll", "fill_buf"}

\* lines 49-65: resolve the source, create the poll, register the fd
ReaderOpen ==
    /\ rpc = "open"
    /\ rpc' = "loop"
    /\ UNCHANGED <<src, pos, rerr, lines_batch, line_buf, rsent, chan>>

\* lines 53, 55, 62, 65: `?` and `return Err(..)` leave the closure; nothing is sent
ReaderOpenFail(c) ==
    /\ rpc = "open"
    /\ rpc' = "failed"
    /\ rerr' = c
    /\ UNCHANGED <<src, pos, lines_batch, line_buf, rsent, chan>>

\* lines 75, 79: poll.poll(..)? or fill_buf()? fails inside the loop
ReaderLoopFail(c) ==
    /\ rpc = "loop"
    /\ rpc' = "failed"
    /\ rerr' = c
    /\ UNCHANGED <<src, pos, lines_batch, line_buf, rsent, chan>>

\* a loop without the timer flush
FlushBatch_Never(batch, elapsed) ==
    /\ lines_batch' = batch
    /\ UNCHANGED <<chan, rsent>>

\* a timer flush that also sends the partial line
FlushBatch_WithPartial(batch, elapsed) ==
    LET out == IF line_buf # <<>>
               THEN Append(batch, FromUtf8Lossy(line_buf))
               ELSE batch
    IN IF elapsed /\ out # <<>>
       THEN /\ chan' = Send(chan, NewLinesEv(out))
            /\ rsent' = Append(rsent, NewLinesEv(out))
            /\ lines_batch' = <<>>
       ELSE /\ lines_batch' = batch
            /\ UNCHANGED <<chan, rsent>>

\* lines 109-114: the timer flush at the end of one loop iteration
FlushBatch(batch, elapsed) ==
    IF elapsed /\ batch # <<>>
    THEN /\ chan' = Send(chan, NewLinesEv(batch))
         /\ rsent' = Append(rsent, NewLinesEv(batch))
         /\ lines_batch' = <<>>
    ELSE /\ lines_batch' = batch
         /\ UNCHANGED <<chan, rsent>>

\* one loop iteration in which the fd is readable and fill_buf returns
\* n > 0 bytes (lines 75-79, 94-104), followed by the timer check
ReaderChunk(n, elapsed) ==
    /\ rpc = "loop"
    /\ n >= 1 /\ pos + n <= Len(src)
    /\ LET buf == SubSeq(src, pos + 1, pos + n)
           r == SplitLoop(buf, 0, line_buf, lines_batch)
       IN /\ line_buf' = r.line_buf
          /\ FlushBatch(r.lines_batch, elapsed)
    /\ pos' = pos + n
    /\ UNCHANGED <<src, rpc, rerr>>

\* one loop iteration in which poll times out with no event: only the
\* timer check runs, and the interval has elapsed
ReaderTimeout ==
    /\ rpc = "loop"
    /\ lines_batch # <<>>
    /\ FlushBatch(lines_batch, TRUE)
    /\ UNCHANGED <<src, pos, rpc, rerr, line_buf>>

\* lines 81-89: fill_buf returns an empty slice; the partial line and the
\* batch are flushed
ReaderEOF ==
    /\ rpc = "loop"
    /\ pos = Len(src)
    /\ LET batch == IF line_buf # <<>>
                    THEN Append(lines_batch, FromUtf8Lossy(line_buf))
                    ELSE lines_batch
       IN IF batch # <<>>
          THEN /\ chan' = Send(chan, NewLinesEv(batch))
               /\ rsent' = Append(rsent, NewLinesEv(batch))
          ELSE UNCHANGED <<chan, rsent>>
    /\ line_buf' = <<>>
    /\ lines_batch' = <<>>
    /\ rpc' = "send_eof"
    /\ UNCHANGED <<src, pos, rerr>>

\* an EOF branch that forgets to return
ReaderSendEOF_NoReturn ==
    /\ rpc = "send_eof"
    /\ chan' = Send(chan, EOFEv)
    /\ rsent' = Append(rsent, EOFEv)
    /\ rpc' = "loop"
    /\ UNCHANGED <<src, pos, rerr, lines_batch, line_buf>>

\* lines 90-91: send Event::EOF and return Ok(())
ReaderSendEOF ==
    /\ rpc = "send_eof"
    /\ chan' = Send(chan, EOFEv)
    /\ rsent' = Append(rsent, EOFEv)
    /\ rpc' = "done"
    /\ UNCHANGED <<src, pos, rerr, lines_batch, line_buf>>

\* the steps of a reader that meets no I/O error
ReaderOk ==
    \/ ReaderOpen
    \/ \E n \in 1..MaxChunk, elapsed \in BOOLEAN : ReaderChunk(n, elapsed)
    \/ ReaderTimeout
    \/ ReaderEOF
    \/ ReaderSendEOF

Reader ==
    \/ ReaderOk
    \/ \E c \in OpenFailures : ReaderOpenFail(c)
    \/ \E c \in LoopFailures : ReaderLoopFail(c)

(***************************************************************************)
(* usize: a 64-bit word, kept as UsizeLimbs limbs of LimbBits bits, least  *)
(* significant first (the model checker's own integers are narrower).      *)
(* Only the line number typed after `g` can reach the word size; line      *)
(* counts and offsets stay small and are plain naturals.                   *)
(***************************************************************************)
LimbBase == 65536
UsizeLimbs == 4

UsizeOf(k) == [i \in 1..UsizeLimbs |-> IF i = 1 THEN k % LimbBase
                                       ELSE IF i = 2 THEN k \div LimbBase ELSE 0]

\* ls * m + c, limb by limb; the result has one limb more than ls (the carry out)
RECURSIVE MulAddLimbs(_, _, _)
MulAddLimbs(ls, m, c) ==
    IF ls = <<>> THEN <<c>>
    ELSE LET v == Head(ls) * m + c
         IN <<v % LimbBase>> \o MulAddLimbs(Tail(ls), m, v \div LimbBase)

\* n * 10 + c on usize: the wrapped value, and whether it overflowed
UsizeMulAdd(n, m, c) ==
    LET r == MulAddLimbs(n, m, c)
    IN [value |-> SubSeq(r, 1, UsizeLimbs), overflow |-> r[UsizeLimbs + 1] # 0]

\* cmp::min(n, k) for a usize n and a small natural k
UsizeMin(n, k) ==
    IF (\A i \in 2..UsizeLimbs : n[i] = 0) /\ n[1] <= k THEN n[1] ELSE k

(***************************************************************************)
(* keys.rs: KeyState, Action, KeyState::next                               *)
(***************************************************************************)
Normal == [tag |-> "Normal"]
WaitingG == [tag |-> "WaitingG"]
WaitingGNumber(n) == [tag |-> "WaitingGNumber", n |-> n]

Act(t) == [tag |-> t]
GoToLine(n) == [tag |-> "GoToLine", line |-> n]

\* KeyCode: Char(c) is the one-character string c; Esc and Enter by name
DigitChars == {"0", "1", "2", "3", "4", "5", "6", "7", "8", "9"}
IsAsciiDigit(c) == c \in DigitChars
ToDigit(c) ==
    CASE c = "0" -> 0 [] c = "1" -> 1 [] c = "2" -> 2 [] c = "3" -> 3
      [] c = "4" -> 4 [] c = "5" -> 5 [] c = "6" -> 6 [] c = "7" -> 7
      [] c = "8" -> 8 [] c = "9" -> 9

Outcome(st, a) == [state |-> st, action |-> a, panic |-> FALSE]
Panic(st) == [state |-> st, action |-> Act("None"), panic |-> TRUE]

\* a table with j and k exchanged
NextNormal_Swapped(code) ==
    CASE code \in {"Esc", "q"} -> Outcome(Normal, Act("Quit"))
      [] code = "j" -> Outcome(Normal, Act("ScrollUpOneLine"))
      [] code = "k" -> Outcome(Normal, Act("ScrollDownOneLine"))
      [] code = "g" -> Outcome(WaitingG, Act("None"))
      [] OTHER -> Outcome(Normal, Act("None"))

\* the Normal arm (lines 30-41)
NextNormal(code) ==
    CASE code \in {"Esc", "q"} -> Outcome(Normal, Act("Quit"))
      [] code = "d" -> Outcome(Normal, Act("ScrollDownHalfScreen"))
      [] code = "u" -> Outcome(Normal, Act("ScrollUpHalfScreen"))
      [] code = "f" -> Outcome(Normal, Act("ScrollDownScreen"))
      [] code = "b" -> Outcome(Normal, Act("ScrollUpScreen"))
      [] code = "j" -> Outcome(Normal, Act("ScrollDownOneLine"))
      [] code = "k" -> Outcome(Normal, Act("ScrollUpOneLine"))
      [] code = "g" -> Outcome(WaitingG, Act("None"))
      [] code = "G" -> Outcome(Normal, Act("GoToBottom"))
      [] OTHER -> Outcome(Normal, Act("None"))

\* a WaitingG arm that hands an abandoning key to the Normal arm
NextWaitingG_Reinterpret(code) ==
    CASE code = "g" -> Outcome(Normal, Act("GoToTop"))
      [] IsAsciiDigit(code) -> Outcome(WaitingGNumber(UsizeOf(ToDigit(code))), Act("None"))
      [] OTHER -> NextNormal(code)

\* the WaitingG arm (lines 42-50)
NextWaitingG(code) ==
    CASE code = "g" -> Outcome(Normal, Act("GoToTop"))
      [] IsAsciiDigit(code) -> Outcome(WaitingGNumber(UsizeOf(ToDigit(code))), Act("None"))
      [] OTHER -> Outcome(Normal, Act("None"))

\* the WaitingGNumber arm (lines 51-59).  `n * 10 + c` is unchecked
\* arithmetic: when it overflows, a build with overflow checks panics and a
\* build without them wraps, so both outcomes are possible.
NextWaitingGNumber(n, code) ==
    CASE IsAsciiDigit(code) ->
            LET r == UsizeMulAdd(n, 10, ToDigit(code))
            IN IF r.overflow
               THEN {Outcome(WaitingGNumber(r.value), Act("None")),
                     Panic(WaitingGNumber(n))}
               ELSE {Outcome(WaitingGNumber(r.value), Act("None"))}
      [] code = "Enter" -> {Outcome(Normal, GoToLine(n))}
      [] OTHER -> {Outcome(Normal, Act("None"))}

\* KeyState::next(self, key): the set of possible outcomes
KeyStateNext(self, code) ==
    CASE self.tag = "Normal" -> {NextNormal(code)}
      [] self.tag = "WaitingG" -> {NextWaitingG(code)}
      [] self.tag = "WaitingGNumber" -> NextWaitingGNumber(self.n, code)

(***************************************************************************)
(* app.rs: the viewport operations                                         *)
(***************************************************************************)
TermHeight(size) == size.height
TermHalfHeight(size) == size.height \div 2
\* a ceiling that lets the last line alone reach the top of the screen
CurrentMaxLine_LastLine(total, size) == SaturatingSub(total, 1)
CurrentMaxLine(total, size) == SaturatingSub(total, TermHeight(size))

ScrollUpOneLine(cl, total, size) == SaturatingSub(cl, 1)
\* a scroll that forgets the ceiling
ScrollDownOneLine_NoClamp(cl, total, size) == SaturatingAdd(cl, 1)
ScrollDownOneLine(cl, total, size) ==
    Min(SaturatingAdd(cl, 1), CurrentMaxLine(total, size))
ScrollUpHalfScreen(cl, total, size) == SaturatingSub(cl, TermHalfHeight(size))
ScrollDownHalfScreen(cl, total, size) ==
    Min(SaturatingAdd(cl, TermHalfHeight(size)), CurrentMaxLine(total, size))
ScrollUpScreen(cl, total, size) == SaturatingSub(cl, TermHeight(size))
\* a full-screen scroll that moves half a screen
ScrollDownScreen_Half(cl, total, size) ==
    Min(SaturatingAdd(cl, TermHalfHeight(size)), CurrentMaxLine(total, size))
ScrollDownScreen(cl, total, size) ==
    Min(SaturatingAdd(cl, TermHeight(size)), CurrentMaxLine(total, size))
GoToTopLine(cl, total, size) == 0
\* a bottom that is one screen below the current top line
GoToBottomLine_Relative(cl, total, size) ==
    Min(SaturatingAdd(cl, CurrentMaxLine(total, size)), total)
GoToBottomLine(cl, total, size) == CurrentMaxLine(total, size)
GoToLineN(line, total, size) == UsizeMin(line, CurrentMaxLine(total, size))
\* a resize that keeps the top line where it was
OnTermResize_NoClamp(cl, total, new_size) == cl
OnTermResize(cl, total, new_size) == Min(cl, CurrentMaxLine(total, new_size))

\* App::on_action: the new current_line
OnAction(a, cl, total, size) ==
    CASE a.tag = "GoToTop" -> GoToTopLine(cl, total, size)
      [] a.tag = "GoToBottom" -> GoToBottomLine(cl, total, size)
      [] a.tag = "GoToLine" -> GoToLineN(a.line, total, size)
      [] a.tag = "ScrollUpOneLine" -> ScrollUpOneLine(cl, total, size)
      [] a.tag = "ScrollDownOneLine" -> ScrollDownOneLine(cl, total, size)
      [] a.tag = "ScrollUpHalfScreen" -> ScrollUpHalfScreen(cl, total, size)
      [] a.tag = "ScrollDownHalfScreen" -> ScrollDownHalfScreen(cl, total, size)
      [] a.tag = "ScrollUpScreen" -> ScrollUpScreen(cl, total, size)
      [] a.tag = "ScrollDownScreen" -> ScrollDownScreen(cl, total, size)
      [] OTHER -> cl
\* App::quit through on_action: the new mode
ModeAfter(a, m) == IF a.tag = "Quit" THEN "Terminated" ELSE m

(***************************************************************************)
(* crossterm events, and the terminal thread (App::spawn_term_thread)      *)
(***************************************************************************)
KeyEv(code, kind) == [t |-> "Key", code |-> code, kind |-> kind]
ResizeEv(columns, rows) == [t |-> "Resize", columns |-> columns, rows |-> rows]
MouseEv == [t |-> "Mouse"]
FocusEv == [t |-> "FocusGained"]

MaxTermPending == 1   \* terminal events sent and not yet received

\* terminal events of the pipeline model: a few of each kind
PipeTermEvents ==
    {KeyEv("q", "Press"), ResizeEv(80, MaxHeight), MouseEv}
\* terminal events of the navigation model: every navigation key
NavKeyCodes == {"d", "u", "f", "b", "j", "k", "g", "G", "Enter", "2"}
NavTermEvents ==
    {KeyEv(c, "Press") : c \in NavKeyCodes}
      \cup {ResizeEv(80, h) : h \in Heights}

\* a dispatcher that also takes key releases and repeats for key presses
IsKeyPress_AnyKind(e) == e.type = "Term" /\ e.ev.t = "Key"
IsKeyPress(e) == e.type = "Term" /\ e.ev.t = "Key" /\ e.ev.kind = "Press"
TermPending(q) == Cardinality({i \in 1..Len(q) : q[i].type \in {"Term", "Err"}})

\* the key state the dispatcher will be in once it has handled all of q
RECURSIVE KeyStateAfter(_, _)
KeyStateAfter(ks, q) ==
    IF q = <<>> THEN ks
    ELSE IF IsKeyPress(Head(q))
         THEN KeyStateAfter(
                (CHOOSE o \in KeyStateNext(ks, Head(q).ev.code) : ~o.panic).state,
                Tail(q))
         ELSE KeyStateAfter(ks, Tail(q))

\* the user types no line number above MaxGoto
WithinGoto(ev) ==
    (ev.t = "Key" /\ ev.kind = "Press" /\ IsAsciiDigit(ev.code)) =>
        LET ks == KeyStateAfter(key_state, chan)
        IN ks.tag = "WaitingGNumber" =>
             UsizeMin(UsizeMulAdd(ks.n, 10, ToDigit(ev.code)).value, MaxGoto + 1) <= MaxGoto

\* line 96: Ok(event) => tx.send(Event::Term(event)).unwrap()
TermSend(ev) ==
    /\ tpc = "run"
    /\ appPc \notin {"exited", "panicked"}
    /\ TermPending(chan) < MaxTermPending
    /\ WithinGoto(ev)
    /\ chan' = Append(chan, TermEv(ev))
    /\ UNCHANGED <<tpc, readerVars, appVars, viewVars, keyVars, decVars>>

\* line 97: Err(err) => tx.send(Event::Err(err.into())).unwrap()
TermSendErr ==
    /\ tpc = "run"
    /\ appPc \notin {"exited", "panicked"}
    /\ TermPending(chan) < MaxTermPending
    /\ chan' = Append(chan, ErrEv("term"))
    /\ UNCHANGED <<tpc, readerVars, appVars, viewVars, keyVars, decVars>>

\* lines 96-97: the receiver is gone, send fails and unwrap panics the thread
TermSendFail ==
    /\ tpc = "run"
    /\ appPc \in {"exited", "panicked"}
    /\ tpc' = "panicked"
    /\ UNCHANGED <<chan, readerVars, appVars, viewVars, keyVars, decVars>>

(***************************************************************************)
(* utils.rs: parse_styled_spans                                            *)
(***************************************************************************)
Span(text, style) == [text |-> text, style |-> style]
Idle == [tag |-> "Idle"]
SawChar(c) == [tag |-> "SawChar", c |-> c]
SawCharBack(c) == [tag |-> "SawCharBack", c |-> c]

\* the locals of parse_styled_spans at loop entry (lines 32-37)
ParserStart ==
    [result |-> <<>>, current_style |-> "plain", current_text |-> <<>>, state |-> Idle]

\* a push_span that starts a new span at every character
PushSpan_NoCoalesce(p, new_style) ==
    [p EXCEPT
       !.result = IF p.current_text # <<>>
                  THEN Append(p.result, Span(p.current_text, p.current_style))
                  ELSE p.result,
       !.current_text = <<>>,
       !.current_style = new_style]

\* the closure push_span (lines 39-48)
PushSpan(p, new_style) ==
    IF p.current_style # new_style
    THEN [p EXCEPT
            !.result = IF p.current_text # <<>>
                       THEN Append(p.result, Span(p.current_text, p.current_style))
                       ELSE p.result,
            !.current_text = <<>>,
            !.current_style = new_style]
    ELSE p

\* push_span(.., style) followed by current_text.push(c as char)
Emit(p, style, c) ==
    LET q == PushSpan(p, style) IN [q EXCEPT !.current_text = Append(q.current_text, c)]

\* one pass of the while loop (lines 50-113) on `byte`
ParserStep(p, byte) ==
    CASE p.state.tag = "Idle" -> [p EXCEPT !.state = SawChar(byte)]
      [] p.state.tag = "SawChar" ->
            IF byte = BS
            THEN [p EXCEPT !.state = SawCharBack(p.state.c)]
            ELSE [Emit(p, "plain", p.state.c) EXCEPT !.state = SawChar(byte)]
      [] p.state.tag = "SawCharBack" ->
            LET prev == p.state.c IN
            IF prev = byte
            THEN [Emit(p, "bold", byte) EXCEPT !.state = Idle]
            ELSE IF prev = UNDERSCORE
            THEN [Emit(p, "underlined", byte) EXCEPT !.state = Idle]
            ELSE [Emit(Emit(p, "plain", prev), "plain", byte) EXCEPT !.state = Idle]

RECURSIVE ParserRun(_, _)
ParserRun(p, bytes) ==
    IF bytes = <<>> THEN p ELSE ParserRun(ParserStep(p, Head(bytes)), Tail(bytes))

\* the flush of the remaining state (lines 115-124): only SawChar is flushed
FlushState(p) ==
    IF p.state.tag = "SawChar" THEN Emit(p, "plain", p.state.c) ELSE p

\* the final push of current_text (lines 126-129)
FinalSpans(p) ==
    IF p.current_text # <<>>
    THEN Append(p.result, Span(p.current_text, p.current_style))
    ELSE p.result

ParseStyledSpans(bytes) == FinalSpans(FlushState(ParserRun(ParserStart, bytes)))

(***************************************************************************)
(* input.rs: OpenedInput::lines                                            *)
(***************************************************************************)
\* String::into_bytes: the UTF-8 encoding; U+FFFD is the bytes EF BF BD
RECURSIVE IntoBytes(_)
IntoBytes(str) ==
    IF str = <<>> THEN <<>>
    ELSE (IF Head(str) = ReplacementChar THEN <<239, 191, 189>> ELSE <<Head(str)>>)
         \o IntoBytes(Tail(str))

\* a lines() that ignores where the range starts
Lines_FromTop(ls, line_number_start, line_size) ==
    IF line_size = 0 \/ Len(ls) < line_number_start
    THEN <<>>
    ELSE LET n == Min(line_size, Len(ls) - line_number_start) IN
         [i \in 1..n |-> ParseStyledSpans(IntoBytes(ls[i]))]

\* OpenedInput::lines (lines 166-180): the early return, the clamp of
\* line_size, and the decoding of each line of the range
Lines(ls, line_number_start, line_size) ==
    IF line_size = 0 \/ Len(ls) < line_number_start
    THEN <<>>
    ELSE LET n == Min(line_size, Len(ls) - line_number_start) IN
         [i \in 1..n |-> ParseStyledSpans(IntoBytes(ls[line_number_start + i]))]

(***************************************************************************)
(* The dispatcher: the loop of App::run and App::handle_events             *)
(***************************************************************************)
\* a loop that receives again without drawing
AfterHandle_NoRedraw(m) == IF m = "Terminated" THEN "exited" ELSE "recv"
\* where run goes after handle_events returned Ok(()): line 84
AfterHandle(m) == IF m = "Terminated" THEN "exited" ELSE "draw"
ResultAfter(m) == IF m = "Terminated" THEN "Ok" ELSE "none"

\* App::render (lines 241-251): the lines handed to the Paragraph, which
\* go to the terminal and into no field of the program
Render == Lines(lines, current_line, TermHeight(term_size))

\* line 85: terminal.draw(..), which calls render
Draw ==
    /\ appPc = "draw"
    /\ appPc' = "recv"
    /\ UNCHANGED <<result, mode, lines, reached_eof, current_total_lines,
                   current_line, key_state, term_size>>
    /\ UNCHANGED <<chan, tpc, readerVars, viewVars, keyVars, decVars>>

Receivable == appPc = "recv" /\ chan # <<>>

\* App::on_key_event for one outcome o of KeyState::next: the state is
\* replaced, on_action runs, and run leaves its loop once mode is Terminated.
\* An overflow panic unwinds the main thread.
ApplyOutcome(o) ==
    IF o.panic
    THEN /\ appPc' = "panicked"
         /\ UNCHANGED <<result, mode, current_line, key_state>>
    ELSE /\ key_state' = o.state
         /\ current_line' = OnAction(o.action, current_line,
                                     current_total_lines, term_size)
         /\ mode' = ModeAfter(o.action, mode)
         /\ appPc' = AfterHandle(mode')
         /\ result' = ResultAfter(mode')

\* Event::Term(Key) with kind Press, through handle_crossterm_events
DispatchKey ==
    /\ Receivable
    /\ IsKeyPress(Head(chan))
    /\ chan' = Tail(chan)
    /\ \E o \in KeyStateNext(key_state, Head(chan).ev.code) : ApplyOutcome(o)
    /\ UNCHANGED <<lines, reached_eof, current_total_lines, term_size>>
    /\ UNCHANGED <<tpc, readerVars, viewVars, keyVars, decVars>>

\* Event::Term(Resize): on_term_resize
DispatchResize ==
    /\ Receivable
    /\ Head(chan).type = "Term" /\ Head(chan).ev.t = "Resize"
    /\ chan' = Tail(chan)
    /\ term_size' = [width |-> Head(chan).ev.columns, height |-> Head(chan).ev.rows]
    /\ current_line' = OnTermResize(current_line, current_total_lines, term_size')
    /\ appPc' = AfterHandle(mode)
    /\ UNCHANGED <<result, mode, lines, reached_eof, current_total_lines,
                   key_state>>
    /\ UNCHANGED <<tpc, readerVars, viewVars, keyVars, decVars>>

\* Event::Term of any other kind: mouse, key release, focus, paste
DispatchOtherTerm ==
    /\ Receivable
    /\ Head(chan).type = "Term"
    /\ Head(chan).ev.t # "Resize"
    /\ ~IsKeyPress(Head(chan))
    /\ chan' = Tail(chan)
    /\ appPc' = AfterHandle(mode)
    /\ UNCHANGED <<result, mode, lines, reached_eof, current_total_lines,
                   current_line, key_state, term_size>>
    /\ UNCHANGED <<tpc, readerVars, viewVars, keyVars, decVars>>

\* a store that puts the batch in front, and one that overwrites it
HandleNewLines_Prepend(ls, batch) == batch \o ls
HandleNewLines_Replace(ls, batch) == batch
\* OpenedInput::handle_event, Event::NewLines (lines 154-158)
HandleNewLines(ls, batch) == ls \o batch

\* Event::NewLines through App::handle_events
DispatchNewLines ==
    /\ Receivable
    /\ Head(chan).type = "NewLines"
    /\ chan' = Tail(chan)
    /\ lines' = HandleNewLines(lines, Head(chan).lines)
    /\ current_total_lines' = Len(lines')
    /\ appPc' = AfterHandle(mode)
    /\ UNCHANGED <<result, mode, reached_eof, current_line, key_state,
                   term_size>>
    /\ UNCHANGED <<tpc, readerVars, viewVars, keyVars, decVars>>

\* Event::EOF through App::handle_events
DispatchEOF ==
    /\ Receivable
    /\ Head(chan).type = "EOF"
    /\ chan' = Tail(chan)
    /\ reached_eof' = TRUE
    /\ appPc' = AfterHandle(mode)
    /\ UNCHANGED <<result, mode, lines, current_total_lines, current_line,
                   key_state, term_size>>
    /\ UNCHANGED <<tpc, readerVars, viewVars, keyVars, decVars>>

\* Event::Err(error) => return Err(error): run returns through `?`
DispatchErr ==
    /\ Receivable
    /\ Head(chan).type = "Err"
    /\ chan' = Tail(chan)
    /\ appPc' = "exited"
    /\ result' = "Err"
    /\ UNCHANGED <<mode, lines, reached_eof, current_total_lines, current_line,
                   key_state, term_size>>
    /\ UNCHANGED <<tpc, readerVars, viewVars, keyVars, decVars>>

Dispatcher ==
    \/ Draw
    \/ DispatchKey
    \/ DispatchResize
    \/ DispatchOtherTerm
    \/ DispatchNewLines
    \/ DispatchEOF
    \/ DispatchErr

(***************************************************************************)
(* The whole system                                                        *)
(***************************************************************************)
DriversIdle ==
    /\ query = <<>> /\ answer = <<>>
    /\ typed = <<>> /\ acts = <<>>
    /\ input = <<>> /\ spans = <<>> /\ dpc = "idle"

\* the state when App::run enters its loop (app.rs lines 76-84)
SystemInit(sources, heights) ==
    /\ src \in sources
    /\ pos = 0
    /\ rpc = "open"
    /\ rerr = "none"
    /\ lines_batch = <<>>
    /\ line_buf = <<>>
    /\ rsent = <<>>
    /\ chan = <<>>
    /\ tpc = "run"
    /\ appPc = "draw"
    /\ result = "none"
    /\ mode = "Main"
    /\ lines = <<>>
    /\ reached_eof = FALSE
    /\ current_total_lines = 0
    /\ current_line = 0
    /\ key_state = Normal
    /\ term_size \in {SizeOf(h) : h \in heights}
    /\ DriversIdle

ReaderStep ==
    /\ Reader
    /\ UNCHANGED <<tpc, appVars, viewVars, keyVars, decVars>>

\* the pipeline model: every source, a terminal of one size
Init == SystemInit(Sources, {MaxHeight})

Next ==
    \/ ReaderStep
    \/ \E ev \in PipeTermEvents : TermSend(ev)
    \/ TermSendErr
    \/ TermSendFail
    \/ Dispatcher

Spec == Init /\ [][Next]_vars

\* the navigation model: sources of newlines, every height, every key
InitNav == SystemInit(NavSources, Heights)

\* no quit key, no terminal error and no reader failure (a reader that
\* failed looks to the viewport like one that is never scheduled again)
NextNav ==
    \/ ReaderOk /\ UNCHANGED <<tpc, appVars, viewVars, keyVars, decVars>>
    \/ \E ev \in NavTermEvents : TermSend(ev)
    \/ Draw
    \/ DispatchKey
    \/ DispatchResize
    \/ DispatchNewLines
    \/ DispatchEOF

SpecNav == InitNav /\ [][NextNav]_vars

(***************************************************************************)
(* A key sequence typed while other events arrive: the keys of gg and of   *)
(* g<digits>Enter, a key release, a mouse event and a resize, with a       *)
(* source that is still being read.                                        *)
(***************************************************************************)
PendingTermEvents ==
    {KeyEv(c, "Press") : c \in {"g", "G", "5", "Enter"}}
      \cup {KeyEv("g", "Release"), MouseEv, ResizeEv(80, MaxHeight)}

InitPending == SystemInit(NavSources, Heights)

NextPending ==
    \/ ReaderOk /\ UNCHANGED <<tpc, appVars, viewVars, keyVars, decVars>>
    \/ \E ev \in PendingTermEvents : TermSend(ev)
    \/ Draw
    \/ DispatchKey
    \/ DispatchResize
    \/ DispatchOtherTerm
    \/ DispatchNewLines
    \/ DispatchEOF

SpecPending == InitPending /\ [][NextPending]_vars

(***************************************************************************)
(* The pipeline under fair scheduling of the reader thread.  The reader    *)
(* thread keeps running: it opens its source, and each pass of its loop    *)
(* ends in poll, which returns at the latest when the flush interval has   *)
(* elapsed (lines 72-75), so the timer check of lines 109-114 is reached   *)
(* again and again; poll reports the source once it is at end of stream.   *)
(* When bytes arrive is up to the source, and whether the dispatcher ever  *)
(* runs is left open: neither is fair.                                     *)
(***************************************************************************)
ReaderOpenStep == ReaderOpen /\ UNCHANGED <<tpc, appVars, viewVars, keyVars, decVars>>
ReaderChunkStep ==
    /\ \E n \in 1..MaxChunk, elapsed \in BOOLEAN : ReaderChunk(n, elapsed)
    /\ UNCHANGED <<tpc, appVars, viewVars, keyVars, decVars>>
ReaderTimeoutStep == ReaderTimeout /\ UNCHANGED <<tpc, appVars, viewVars, keyVars, decVars>>
ReaderEOFStep == ReaderEOF /\ UNCHANGED <<tpc, appVars, viewVars, keyVars, decVars>>
ReaderSendEOFStep == ReaderSendEOF /\ UNCHANGED <<tpc, appVars, viewVars, keyVars, decVars>>

NextLive ==
    \/ ReaderOpenStep
    \/ ReaderChunkStep
    \/ ReaderTimeoutStep
    \/ ReaderEOFStep
    \/ ReaderSendEOFStep
    \/ Draw
    \/ DispatchNewLines
    \/ DispatchEOF

ReaderFairness ==
    /\ WF_vars(ReaderOpenStep)
    /\ WF_vars(ReaderTimeoutStep)
    /\ WF_vars(ReaderEOFStep)
    /\ WF_vars(ReaderSendEOFStep)

SpecLive == Init /\ [][NextLive]_vars /\ ReaderFairness

(***************************************************************************)
(* App::on_key_event driven by a key sequence (the pure KeyState::next     *)
(* and on_action, without the channel): typed and acts record the keys     *)
(* given and the actions returned.                                         *)
(***************************************************************************)
MaxKeys == 3          \* keys of a free sequence
MaxDigitRun == 20     \* digits of the long run g 9 9 9 ... before Enter

AllKeyCodes ==
    {"q", "Esc", "d", "u", "f", "b", "j", "k", "g", "G", "Enter", "x"} \cup DigitChars
LongDigit == "9"
IsLongRun(ks) ==
    /\ Len(ks) >= 1 /\ ks[1] = "g"
    /\ \A i \in 2..Len(ks) : ks[i] = LongDigit

MayType(code) ==
    \/ Len(typed) < MaxKeys
    \/ /\ IsLongRun(typed)
       /\ code \in {LongDigit, "Enter"}
       /\ Len(typed) <= MaxDigitRun + 1

InitKeys == SystemInit({<<>>}, {MaxHeight})

\* one pass of the run loop whose event is the key press `code`
OnKeyEvent(code) ==
    /\ appPc = "draw"
    /\ MayType(code)
    /\ typed' = Append(typed, code)
    /\ \E o \in KeyStateNext(key_state, code) :
         /\ ApplyOutcome(o)
         /\ acts' = IF o.panic THEN acts ELSE Append(acts, o.action)
    /\ UNCHANGED <<lines, reached_eof, current_total_lines, term_size>>
    /\ UNCHANGED <<chan, tpc, readerVars, viewVars, decVars>>

NextKeys == \E code \in AllKeyCodes : OnKeyEvent(code)

SpecKeys == InitKeys /\ [][NextKeys]_vars

(***************************************************************************)
(* parse_styled_spans applied to bounded inputs                            *)
(***************************************************************************)
MaxInputLen == 4      \* longest enumerated decoder input

\* "N\bNA\bAM\bME\bE", "_\bX" and "plain"
NameBold == <<78, BS, 78, 65, BS, 65, 77, BS, 77, 69, BS, 69>>
UnderX == <<UNDERSCORE, BS, 88>>
PlainWord == <<112, 108, 97, 105, 110>>
\* the input of test_backspace_chars (line 143)
TestData == <<LF>> \o NameBold \o <<32>> \o UnderX \o <<32>> \o PlainWord

\* a backspace, an underscore and two letters
DecoderBytes == {BS, UNDERSCORE, 97, 98}
DecoderInputs ==
    SeqsUpTo(DecoderBytes, MaxInputLen) \cup {NameBold, UnderX, PlainWord, TestData}

DecoderInit ==
    /\ src = <<>> /\ pos = 0 /\ rpc = "open" /\ rerr = "none"
    /\ lines_batch = <<>> /\ line_buf = <<>> /\ rsent = <<>>
    /\ chan = <<>> /\ tpc = "run"
    /\ appPc = "draw" /\ result = "none" /\ mode = "Main"
    /\ lines = <<>> /\ reached_eof = FALSE /\ current_total_lines = 0
    /\ current_line = 0 /\ key_state = Normal
    /\ term_size = SizeOf(MaxHeight)
    /\ query = <<>> /\ answer = <<>>
    /\ typed = <<>> /\ acts = <<>>
    /\ input \in DecoderInputs
    /\ spans = <<>>
    /\ dpc = "idle"

\* the call parse_styled_spans(input)
Decode ==
    /\ dpc = "idle"
    /\ spans' = ParseStyledSpans(input)
    /\ dpc' = "done"
    /\ UNCHANGED <<input, chan, tpc, readerVars, appVars, viewVars, keyVars>>

NextDecoder == Decode

SpecDecoder == DecoderInit /\ [][NextDecoder]_vars

(***************************************************************************)
(* OpenedInput::lines called on a store that holds a whole source          *)
(***************************************************************************)
MaxQuery == 4         \* largest start and largest count asked for

\* the lines the reader makes of the source s: the split loop, then the
\* push of the partial line at end of stream (input.rs lines 82-104)
LoadedLines(s) ==
    LET r == SplitLoop(s, 0, <<>>, <<>>) IN
    IF r.line_buf # <<>>
    THEN Append(r.lines_batch, FromUtf8Lossy(r.line_buf))
    ELSE r.lines_batch

\* the state once the reader has sent the source s, whose lines are ls, in
\* one batch and returned, and the dispatcher has handled every message:
\* run is about to draw again
Loaded(s, ls, size) ==
    /\ src = s
    /\ pos = Len(s)
    /\ rpc = "done"
    /\ rerr = "none"
    /\ lines_batch = <<>>
    /\ line_buf = <<>>
    /\ rsent = IF ls # <<>> THEN <<NewLinesEv(ls), EOFEv>> ELSE <<EOFEv>>
    /\ chan = <<>>
    /\ tpc = "run"
    /\ appPc = "draw"
    /\ result = "none"
    /\ mode = "Main"
    /\ lines = ls
    /\ reached_eof = TRUE
    /\ current_total_lines = Len(lines)
    /\ current_line = 0
    /\ key_state = Normal
    /\ term_size = size
    /\ query = <<>> /\ answer = <<>>
    /\ typed = <<>> /\ acts = <<>>
    /\ input = <<>> /\ spans = <<>> /\ dpc = "idle"

InitLines == \E s \in Sources : Loaded(s, LoadedLines(s), SizeOf(MaxHeight))

\* the call self.lines(start, count)
QueryLines(start, count) ==
    /\ query' = <<start, count>>
    /\ answer' = Lines(lines, start, count)
    /\ UNCHANGED <<chan, tpc, readerVars, appVars, keyVars, decVars>>

NextLines == \E start \in 0..MaxQuery, count \in 0..MaxQuery : QueryLines(start, count)

SpecLines == InitLines /\ [][NextLines]_vars

(***************************************************************************)
(* Navigation in a file of 100 lines on a terminal of 10 rows, once the    *)
(* whole file is in the store                                              *)
(***************************************************************************)
\* a source of 100 line terminators, and the 100 lines the reader makes of it
HundredBytes == [i \in 1..100 |-> LF]
HundredLines == [i \in 1..100 |-> FromUtf8Lossy(<<LF>>)]
ScrollHeights == {10, MaxHeight}
ScrollTermEvents ==
    {KeyEv(c, "Press") : c \in NavKeyCodes}
      \cup {ResizeEv(80, h) : h \in ScrollHeights}

InitScroll == Loaded(HundredBytes, HundredLines, SizeOf(10))

NextScroll ==
    \/ \E ev \in ScrollTermEvents : TermSend(ev)
    \/ Draw
    \/ DispatchKey
    \/ DispatchResize

SpecScroll == InitScroll /\ [][NextScroll]_vars

(***************************************************************************)
(* Properties                                                              *)
(***************************************************************************)
IsPrefix(a, b) == Len(a) <= Len(b) /\ SubSeq(b, 1, Len(a)) = a

\* the source cut after each line terminator
RECURSIVE CutLines(_)
CutLines(bytes) ==
    IF bytes = <<>> THEN <<>>
    ELSE IF \E i \in 1..Len(bytes) : bytes[i] = LF
         THEN LET i == CHOOSE k \in 1..Len(bytes) :
                           bytes[k] = LF /\ \A j \in 1..(k - 1) : bytes[j] # LF
              IN <<SubSeq(bytes, 1, i)>> \o CutLines(SubSeq(bytes, i + 1, Len(bytes)))
         ELSE <<bytes>>

\* the text of a byte line: every byte that is no valid UTF-8 reads U+FFFD
TextOf(bytes) == [i \in 1..Len(bytes) |-> IF bytes[i] < 128 THEN bytes[i] ELSE 65533]
SourceText == [i \in 1..Len(CutLines(src)) |-> TextOf(CutLines(src)[i])]

\* C1: the top line of the viewport is never negative and never beyond
\* max(0, total_count - height), whatever events were handled.
C1_ViewportBound ==
    /\ current_line >= 0
    /\ current_line <= (IF current_total_lines >= term_size.height
                        THEN current_total_lines - term_size.height ELSE 0)

C1_Witness ==
    /\ current_total_lines = 2 /\ term_size.height = 1 /\ current_line = 1
    /\ reached_eof /\ key_state = Normal

\* C2: the reader sends only NewLines events and then, at end of stream,
\* EOF exactly once; EOF is the last thing it sends.
C2_EofProtocol ==
    LET eofs == {i \in 1..Len(rsent) : rsent[i].type = "EOF"} IN
    /\ \A i \in 1..Len(rsent) : rsent[i].type \in {"NewLines", "EOF"}
    /\ Cardinality(eofs) <= 1
    /\ \A i \in eofs : i = Len(rsent) /\ pos = Len(src)
    /\ (rpc = "done") <=> (eofs # {})

C2_Witness ==
    /\ rpc = "done" /\ Len(rsent) = 3
    /\ rsent[1].type = "NewLines" /\ rsent[2].type = "NewLines" /\ rsent[3].type = "EOF"

\* C3: a reader that failed has sent exactly one Err event, as its last send.
C3_FailureReported ==
    rpc = "failed" =>
        /\ Cardinality({i \in 1..Len(rsent) : rsent[i].type = "Err"}) = 1
        /\ rsent[Len(rsent)].type = "Err"

C5_ReaderFailureFatal ==
    (rpc = "failed" /\ chan = <<>>) => appPc = "exited"

\* C6: total_count is the length of the store; handling a NewLines batch adds
\* the batch's size to it, no other step changes it, and the lines already
\* stored keep their index and content.
C6_AppendOnly ==
    [][/\ current_total_lines = Len(lines)
       /\ current_total_lines' = Len(lines')
       /\ current_total_lines' >= current_total_lines
       /\ SubSeq(lines', 1, Len(lines)) = lines
       /\ IF chan # <<>> /\ chan' = Tail(chan) /\ Head(chan).type = "NewLines"
          THEN current_total_lines' = current_total_lines + Len(Head(chan).lines)
          ELSE current_total_lines' = current_total_lines]_vars

C6_Witness ==
    /\ Len(rsent) = 3 /\ rsent[1].type = "NewLines" /\ rsent[2].type = "NewLines"
    /\ chan = <<>> /\ reached_eof
    /\ current_total_lines = Len(rsent[1].lines) + Len(rsent[2].lines)
    /\ current_total_lines = 3

\* the exact value of a decimal digit string, as limbs without leading zeros
RECURSIVE Strip(_)
Strip(ls) ==
    IF ls # <<>> /\ ls[Len(ls)] = 0 THEN Strip(SubSeq(ls, 1, Len(ls) - 1)) ELSE ls
RECURSIVE ExactValue(_)
ExactValue(ds) ==
    IF ds = <<>> THEN <<>>
    ELSE Strip(MulAddLimbs(ExactValue(SubSeq(ds, 1, Len(ds) - 1)), 10, ToDigit(ds[Len(ds)])))
AllDigits(ks) == \A i \in 1..Len(ks) : ks[i] \in DigitChars
AllNone(as) == \A i \in 1..Len(as) : as[i] = [tag |-> "None"]

\* C7: from Normal, g g yields (None, GoToTop) and ends in Normal; g, digits,
\* Enter yields no action until Enter, then GoToLine(decimal value of the
\* digits), and ends in Normal.
C7_KeySequences ==
    /\ typed = <<"g", "g">> =>
         acts = <<[tag |-> "None"], [tag |-> "GoToTop"]>> /\ key_state = [tag |-> "Normal"]
    /\ (Len(typed) >= 2 /\ typed[1] = "g" /\ AllDigits(SubSeq(typed, 2, Len(typed)))) =>
         Len(acts) = Len(typed) /\ AllNone(acts)
    /\ (Len(typed) >= 3 /\ typed[1] = "g" /\ typed[Len(typed)] = "Enter"
          /\ AllDigits(SubSeq(typed, 2, Len(typed) - 1))) =>
         /\ Len(acts) = Len(typed)
         /\ AllNone(SubSeq(acts, 1, Len(acts) - 1))
         /\ acts[Len(acts)].tag = "GoToLine"
         /\ Strip(acts[Len(acts)].line) = ExactValue(SubSeq(typed, 2, Len(typed) - 1))
         /\ key_state = [tag |-> "Normal"]

\* the action the Normal state is to yield for a key
NormalTable(c) ==
    CASE c \in {"q", "Esc"} -> "Quit"
      [] c = "d" -> "ScrollDownHalfScreen"
      [] c = "u" -> "ScrollUpHalfScreen"
      [] c = "f" -> "ScrollDownScreen"
      [] c = "b" -> "ScrollUpScreen"
      [] c = "j" -> "ScrollDownOneLine"
      [] c = "k" -> "ScrollUpOneLine"
      [] c = "G" -> "GoToBottom"
      [] OTHER -> "None"

\* C8: in Normal every key yields the action of the table and stays in
\* Normal, except g, which yields no action and moves to WaitingG; Quit sets
\* the mode to Terminated, and no key is handled once the mode is Terminated.
C8_NormalKeyTable ==
    [][/\ (key_state = [tag |-> "Normal"] /\ typed' # typed) =>
            LET c == typed'[Len(typed')] IN
            /\ acts' = Append(acts, [tag |-> NormalTable(c)])
            /\ key_state' = [tag |-> IF c = "g" THEN "WaitingG" ELSE "Normal"]
            /\ mode' = IF NormalTable(c) = "Quit" THEN "Terminated" ELSE mode
            /\ (NormalTable(c) = "Quit") => appPc' = "exited"
       /\ mode = "Terminated" => (typed' = typed /\ acts' = acts)]_vars

C8_Witness ==
    /\ typed = <<"x", "j", "q">>
    /\ acts = <<[tag |-> "None"], [tag |-> "ScrollDownOneLine"], [tag |-> "Quit"]>>
    /\ mode = "Terminated" /\ appPc = "exited"

IsDoubledRun(s) ==
    /\ Len(s) >= 3 /\ Len(s) % 3 = 0
    /\ \A j \in 0..((Len(s) \div 3) - 1) : s[3 * j + 2] = BS /\ s[3 * j + 1] = s[3 * j + 3]
RunText(s) == [j \in 1..(Len(s) \div 3) |-> s[3 * j]]

\* C9: a run of doubled characters c \b c decodes to one bold span of the
\* characters, _ \b x (x not _) to x underlined, bytes without backspace to
\* one plain span of the same text; so for the three examples of the
\* specification and inside the input of test_backspace_chars.
C9_OverstrikePatterns ==
    dpc = "done" =>
        /\ IsDoubledRun(input) => spans = <<[text |-> RunText(input), style |-> "bold"]>>
        /\ (Len(input) = 3 /\ input[1] = 95 /\ input[2] = 8 /\ input[3] # 95) =>
             spans = <<[text |-> <<input[3]>>, style |-> "underlined"]>>
        /\ (input # <<>> /\ \A i \in 1..Len(input) : input[i] # 8) =>
             spans = <<[text |-> input, style |-> "plain"]>>
        /\ input = NameBold => spans = <<[text |-> <<78, 65, 77, 69>>, style |-> "bold"]>>
        /\ input = UnderX => spans = <<[text |-> <<88>>, style |-> "underlined"]>>
        /\ input = PlainWord => spans = <<[text |-> PlainWord, style |-> "plain"]>>
        /\ input = TestData =>
             /\ Len(spans) = 5
             /\ spans[2] = [text |-> <<78, 65, 77, 69>>, style |-> "bold"]
             /\ spans[4] = [text |-> <<88>>, style |-> "underlined"]
             /\ spans[5] = [text |-> <<32>> \o PlainWord, style |-> "plain"]

C9_Witness ==
    /\ dpc = "done" /\ input = NameBold
    /\ spans = <<[text |-> <<78, 65, 77, 69>>, style |-> "bold"]>>

\* the text of all spans, in order
RECURSIVE OutText(_)
OutText(sp) == IF sp = <<>> THEN <<>> ELSE Head(sp).text \o OutText(Tail(sp))
\* a byte the decoder may leave out: a backspace, or the first character of
\* a bold (c \b c) or underline (_ \b x) pattern
MayDrop(s, i) ==
    \/ s[i] = BS
    \/ /\ i + 2 <= Len(s) /\ s[i + 1] = BS
       /\ (s[i + 2] = s[i] \/ s[i] = UNDERSCORE)
RECURSIVE Without(_, _, _)
Without(s, D, i) ==
    IF i > Len(s) THEN <<>>
    ELSE (IF i \in D THEN <<>> ELSE <<s[i]>>) \o Without(s, D, i + 1)

\* C10: the output text is the input minus backspaces and overstruck first
\* characters of bold or underline patterns; no other byte is lost.
C10_NoCharLost ==
    dpc = "done" =>
        \E D \in SUBSET {i \in 1..Len(input) : MayDrop(input, i)} :
            OutText(spans) = Without(input, D, 1)

\* C11: lines(start, count) on a store of L lines returns exactly
\* min(count, max(0, L - start)) lines, the decoded stored lines at
\* indices start, start + 1, ... in order; it is empty when start >= L or
\* count = 0, also on a store that is empty after end of input.
Max(a, b) == IF a >= b THEN a ELSE b
C11_LinesRange ==
    query # <<>> =>
        LET start == query[1]
            count == query[2]
            L == Len(lines)
            n == Min(count, Max(0, L - start))
        IN /\ Len(answer) = n
           /\ \A i \in 1..n :
                answer[i] = ParseStyledSpans(IntoBytes(lines[start + i]))
           /\ (start >= L \/ count = 0) => answer = <<>>

\* a range that starts inside the store and is cut by its end, and a call
\* past the end of the store
C11_Witness ==
    /\ Len(lines) = 3
    /\ lines[2] # lines[3]
    /\ query = <<1, MaxQuery>>
    /\ Len(answer) = 2

\* C12: with max_top = max(0, total - height) at the time of the operation,
\* line down/up sets top_line to clamp(top_line +/- 1), half-screen down/up
\* to clamp(top_line +/- height div 2), full-screen down/up to
\* clamp(top_line +/- height), top to 0, bottom to max_top and go-to-line N
\* to clamp(N), where clamp(x) = max(0, min(x, max_top)); with 100 lines,
\* height 10 and top_line 0, ten full-screen scrolls down reach 90 and an
\* eleventh stays at 90.
MaxTop == Max(0, current_total_lines - term_size.height)
Clamp(x) == Max(0, Min(x, MaxTop))
LineNumber(n) == n[1] + n[2] * LimbBase
\* the dispatcher is about to handle a press of the key `code`
KeyNext(code) ==
    /\ appPc = "recv" /\ chan # <<>>
    /\ IsKeyPress(Head(chan)) /\ Head(chan).ev.code = code
NavTarget(code) ==
    LET h == term_size.height IN
    CASE key_state = Normal /\ code = "j" -> Clamp(current_line + 1)
      [] key_state = Normal /\ code = "k" -> Clamp(current_line - 1)
      [] key_state = Normal /\ code = "d" -> Clamp(current_line + h \div 2)
      [] key_state = Normal /\ code = "u" -> Clamp(current_line - h \div 2)
      [] key_state = Normal /\ code = "f" -> Clamp(current_line + h)
      [] key_state = Normal /\ code = "b" -> Clamp(current_line - h)
      [] key_state = Normal /\ code = "G" -> MaxTop
      [] key_state = WaitingG /\ code = "g" -> 0
      [] key_state.tag = "WaitingGNumber" /\ code = "Enter" ->
            Clamp(LineNumber(key_state.n))
      [] OTHER -> current_line
RECURSIVE FullScreensDown(_)
FullScreensDown(k) ==
    IF k = 0 THEN 0
    ELSE ScrollDownScreen(FullScreensDown(k - 1), 100, SizeOf(10))
C12_NavigationEffects ==
    [][/\ \A code \in NavKeyCodes :
            (KeyNext(code) /\ chan' = Tail(chan)) => current_line' = NavTarget(code)
       /\ FullScreensDown(10) = 90
       /\ FullScreensDown(11) = 90]_vars

\* the eleventh full-screen scroll down is about to be handled
C12_Witness ==
    /\ KeyNext("f") /\ key_state = Normal
    /\ current_total_lines = 100 /\ term_size.height = 10
    /\ current_line = 90

\* C13: a trailing partial line (bytes after the last line terminator) is
\* never part of a timer flush; it is kept across chunks and is delivered
\* only once a later terminator completes it, or at end of stream as the
\* last line of the final batch right before EOF, with exactly the bytes
\* accumulated.
Terminated(l) == l # <<>> /\ l[Len(l)] = LF
\* the bytes after the last line terminator
Partial(bytes) ==
    IF \E i \in 1..Len(bytes) : bytes[i] = LF
    THEN LET k == CHOOSE i \in 1..Len(bytes) :
                    bytes[i] = LF /\ \A j \in (i + 1)..Len(bytes) : bytes[j] # LF
         IN SubSeq(bytes, k + 1, Len(bytes))
    ELSE bytes
\* message i is the batch sent at end of stream
IsFinalBatch(i) ==
    \/ rpc = "send_eof" /\ i = Len(rsent)
    \/ rpc = "done" /\ i = Len(rsent) - 1
C13_PartialLine ==
    /\ rpc = "loop" => line_buf = Partial(SubSeq(src, 1, pos))
    /\ \A j \in 1..Len(lines_batch) : Terminated(lines_batch[j])
    /\ \A i \in 1..Len(rsent) :
         rsent[i].type = "NewLines" =>
            \A j \in 1..Len(rsent[i].lines) :
               ~Terminated(rsent[i].lines[j]) =>
                  /\ IsFinalBatch(i)
                  /\ j = Len(rsent[i].lines)
                  /\ rsent[i].lines[j] = TextOf(Partial(src))

\* a partial line was kept while a timer flush sent the completed line
\* before it, and went out in the final batch
C13_Witness ==
    /\ rpc = "done"
    /\ Len(rsent) = 3
    /\ rsent[1].type = "NewLines" /\ rsent[2].type = "NewLines"
    /\ rsent[2].lines = <<TextOf(Partial(src))>>
    /\ Len(Partial(src)) = 2

\* C14: every line of a NewLines batch and of the line store has had its
\* tabs expanded, so no stored line contains a tab character.
HasTab(l) == \E k \in 1..Len(l) : l[k] = TAB
C14_TabNormalization ==
    /\ \A i \in 1..Len(lines) : ~HasTab(lines[i])
    /\ \A i \in 1..Len(rsent) :
         rsent[i].type = "NewLines" =>
            \A j \in 1..Len(rsent[i].lines) : ~HasTab(rsent[i].lines[j])

\* C15: the dispatcher receives one event, handles it to completion, redraws
\* exactly once and only then receives the next event; no two events are
\* handled at once, a redraw happens only between two handlers and changes
\* nothing, and the producer threads never read or write the line store,
\* the viewport or the key state.
OwnedState == <<mode, lines, reached_eof, current_total_lines, current_line,
                key_state, term_size>>
Receives == chan # <<>> /\ chan' = Tail(chan)
Redraws == appPc # "recv" /\ appPc' = "recv"
Produces ==
    \/ readerVars' # readerVars
    \/ tpc' # tpc
    \/ Len(chan') > Len(chan)
C15_MainLoopSerialization ==
    [][/\ Receives => appPc = "recv" /\ appPc' # "recv"
       /\ Redraws => appPc = "draw" /\ UNCHANGED <<OwnedState, chan>>
       /\ OwnedState' # OwnedState => Receives
       /\ Produces => UNCHANGED appVars]_vars

\* a batch has been handled and is not drawn yet, while EOF already waits
C15_Witness ==
    /\ appPc = "draw"
    /\ lines # <<>> /\ ~reached_eof
    /\ chan # <<>> /\ Head(chan).type = "EOF"

\* C16: go-to-top applied twice in a row gives the same state as applied
\* once, and go-to-bottom applied when top_line already equals max_top
\* leaves the state unchanged.
C16_Idempotence ==
    [][/\ (KeyNext("g") /\ key_state = Normal /\ chan' = Tail(chan)) =>
            /\ key_state' = WaitingG
            /\ UNCHANGED <<mode, lines, reached_eof, current_total_lines,
                           current_line, term_size>>
       /\ (KeyNext("g") /\ key_state = WaitingG /\ chan' = Tail(chan)) =>
            /\ current_line' = 0
            /\ key_state' = Normal
            /\ UNCHANGED <<mode, lines, reached_eof, current_total_lines, term_size>>
       /\ (KeyNext("G") /\ key_state = Normal /\ chan' = Tail(chan)
             /\ current_line = MaxTop) => UNCHANGED OwnedState]_vars

\* go-to-bottom is about to be handled with the viewport already at a
\* bottom that is not the top
C16_Witness ==
    /\ KeyNext("G") /\ key_state = Normal
    /\ MaxTop > 0
    /\ current_line = MaxTop

\* C17: in WaitingG any key other than g or a digit, and in
\* WaitingGNumber(n) any key other than a digit or Enter, yields no action
\* and returns to Normal; the abandoning key is consumed and not read again
\* as a Normal-state key (g then q does not quit, g then j does not scroll);
\* the only key states ever reached are Normal, WaitingG and
\* WaitingGNumber(n).
Abandons(code) ==
    \/ key_state = WaitingG /\ code \notin DigitChars \cup {"g"}
    \/ key_state.tag = "WaitingGNumber" /\ code \notin DigitChars \cup {"Enter"}
C17_SequenceAbandonment ==
    [][/\ \A code \in AllKeyCodes :
            (typed' = Append(typed, code) /\ Abandons(code)) =>
               /\ acts' = Append(acts, Act("None"))
               /\ key_state' = Normal
               /\ appPc' = "draw"
               /\ UNCHANGED <<mode, result, current_line, lines,
                              current_total_lines, term_size>>
       /\ key_state'.tag \in {"Normal", "WaitingG", "WaitingGNumber"}]_vars

\* g 2 q: the q abandoned the line number and did not quit
C17_Witness ==
    /\ typed = <<"g", "2", "q">>
    /\ acts = <<Act("None"), Act("None"), Act("None")>>
    /\ key_state = Normal
    /\ mode = "Main"

\* C18: the output of parse_styled_spans has no empty span and no two
\* adjacent spans of the same style: a new span starts exactly where the
\* style of consecutive emitted characters changes.
C18_SpanCoalescing ==
    dpc = "done" =>
        /\ \A i \in 1..Len(spans) : spans[i].text # <<>>
        /\ \A i \in 1..(Len(spans) - 1) : spans[i].style # spans[i + 1].style

\* the test input: plain, bold NAME in one span, plain, underlined, plain
C18_Witness ==
    /\ dpc = "done"
    /\ input = TestData
    /\ Len(spans) = 5
    /\ spans[2] = Span(<<78, 65, 77, 69>>, "bold")

\* C20: on a resize event the stored width and height are replaced first,
\* then top_line becomes min(old top_line, max(0, total - new height)); the
\* line store and the key state are unchanged.
ResizeNext ==
    /\ appPc = "recv" /\ chan # <<>>
    /\ Head(chan).type = "Term" /\ Head(chan).ev.t = "Resize"
C20_ResizeHandling ==
    [][(ResizeNext /\ chan' = Tail(chan)) =>
          /\ term_size' = [width |-> Head(chan).ev.columns,
                           height |-> Head(chan).ev.rows]
          /\ current_line' =
                Min(current_line, Max(0, current_total_lines - Head(chan).ev.rows))
          /\ UNCHANGED <<lines, current_total_lines, reached_eof, key_state, mode>>]_vars

\* a resize that will pull the top line back is about to be handled while
\* a key sequence is pending
C20_Witness ==
    /\ ResizeNext
    /\ key_state = WaitingG
    /\ current_line > Max(0, current_total_lines - Head(chan).ev.rows)

\* C19: every line the reader has completed is eventually sent in a
\* NewLines message, and once the source is at end of stream EOF is
\* eventually sent, under fair scheduling of the reader thread alone: even
\* if the dispatcher never receives from the channel and even while no
\* further bytes arrive.
RECURSIVE SentLines(_)
SentLines(msgs) ==
    IF msgs = <<>> THEN 0
    ELSE (IF Head(msgs).type = "NewLines" THEN Len(Head(msgs).lines) ELSE 0)
         + SentLines(Tail(msgs))
CompletedLines == SentLines(rsent) + Len(lines_batch)
EofSent == \E i \in 1..Len(rsent) : rsent[i].type = "EOF"
C21_DigitAccumulation ==
    (Len(typed) >= 2 /\ typed[1] = "g" /\ AllDigits(SubSeq(typed, 2, Len(typed)))) =>
        /\ appPc # "panicked"
        /\ key_state.tag = "WaitingGNumber"
        /\ Strip(key_state.n) = ExactValue(SubSeq(typed, 2, Len(typed)))

\* C22: handling NewLines, EOF, a resize, a mouse event or a key event whose
\* kind is not Press leaves the key state unchanged and performs no
\* navigation action, so g, <NewLines or resize>, g still goes to the top
\* and g, 5, <NewLines>, Enter still goes to line 5.
NotAKeyPress(e) ==
    \/ e.type \in {"NewLines", "EOF"}
    \/ e.type = "Term" /\ (e.ev.t # "Key" \/ e.ev.kind # "Press")
IsResize(e) == e.type = "Term" /\ e.ev.t = "Resize"
C22_PendingSequenceSurvives ==
    [][/\ (appPc = "recv" /\ Receives /\ NotAKeyPress(Head(chan))) =>
            /\ key_state' = key_state
            /\ ~IsResize(Head(chan)) => current_line' = current_line
            /\ IsResize(Head(chan)) =>
                  current_line' = Min(current_line,
                                      Max(0, current_total_lines - Head(chan).ev.rows))
       /\ (KeyNext("g") /\ key_state = WaitingG /\ chan' = Tail(chan)) =>
            current_line' = 0 /\ key_state' = Normal
       /\ (KeyNext("Enter") /\ key_state.tag = "WaitingGNumber" /\ chan' = Tail(chan)) =>
            /\ current_line' = Clamp(LineNumber(key_state.n))
            /\ key_state' = Normal]_vars

\* g and 5 were typed, a batch arrived before Enter and is handled first
C22_Witness ==
    /\ key_state = WaitingGNumber(UsizeOf(5))
    /\ appPc = "recv"
    /\ Len(chan) = 2
    /\ chan[1].type = "NewLines"
    /\ chan[2] = TermEv(KeyEv("Enter", "Press"))

\* C23: at every redraw the number of lines handed to the renderer,
\* lines(top_line, height), is min(height, total_count), and they are the
\* stored lines from top_line on: the screen is never partly empty while the
\* store holds at least height lines, after any navigation, resize and
\* ingestion.
C23_ViewportFull ==
    appPc = "draw" =>
        LET shown == Min(term_size.height, Len(lines)) IN
        /\ current_total_lines = Len(lines)
        /\ Len(Render) = shown
        /\ \A i \in 1..shown :
             Render[i] = ParseStyledSpans(IntoBytes(lines[current_line + i]))

\* a redraw of a full screen that does not start at the first line
C23_Witness ==
    /\ appPc = "draw"
    /\ current_line > 0
    /\ term_size.height > 0
    /\ Len(Render) = term_size.height

====
